---- MODULE Spec2Model ----
(***************************************************************************)
(* Stop-and-wait reliable transfer of exp2/reliable_transfer_error_model.cc *)
(* (ReliableHeader, ReliableServer, ReliableClient) over an unreliable      *)
(* channel, driven by a discrete-event scheduler.                           *)
(* Also the rate-controlled EnhancedUdpClient of unnamed/part_000.         *)
(*                                                                          *)
(* Time is abstracted: a pending scheduler event may run at any moment, so  *)
(* every ordering of timer expiry, send events and packet arrival that some *)
(* choice of delays can produce is a behaviour of the model.                *)
(***************************************************************************)
EXTENDS Integers, Sequences, FiniteSets, TLC

\* ------------------------------------------------------------------ bounds
\* MaxPackets attribute given to the client (m_maxPackets).
MaxPackets == 3
\* Timeout-triggered retransmissions explored (m_retransmissions is unbounded).
MaxRetx == 2
\* Packets the channel may lose (receive error model) or fail to enqueue.
MaxDrops == 1
\* Packets the channel may deliver a second time.
MaxDups == 1
\* Packets handed to the server in the open-receiver specification.
MaxInputs == 3
\* Largest sequence / ack number of a packet handed to the open receiver.
MaxInSeq == 2
\* Largest MaxPackets of a run of the scenario specification.
MaxRunPackets == 10
\* Largest MaxPackets given to the rate-controlled client.
MaxUdpPackets == 285

\* ------------------------------------------------------- program constants
\* The uint32_t counters are modelled as naturals: within the bounds below they
\* stay far from 2^32, so no run of the model reaches a wrap-around.
\* PacketSize attribute, default
PacketSize == 1024
ClientAddr == "client"
ServerAddr == "server"
OtherAddr == "other"

VARIABLES
    \* ReliableServer
    m_expectedSequence, m_totalPacketsReceived, m_totalBytesReceived,
    \* ReliableClient
    m_nextSequence, m_totalPacketsSent, m_retransmissions, m_totalBytesSent,
    m_timerEvent, m_waitingForAck, m_pendingAckSequence,
    m_maxPackets,    \* MaxPackets attribute, set before the application starts
    clientState,     \* "created" | "running" | "stopped" (Application lifecycle)
    \* scheduler
    timers,          \* pending TimeoutHandler events: [id, seq]
    sendEvents,      \* number of pending SendPacket events
    uid,             \* next event id handed out by Simulator::Schedule
    \* channel
    net,             \* packets in flight
    drops, dups,     \* losses / duplications so far
    inputs,          \* packets handed to the open receiver so far
    \* observation of the run
    ev,              \* what the last handler did
    sentSeqs,        \* sequence numbers the client transmitted at least once
    ackedSeqs,       \* ack numbers the client accepted
    acksEmitted,     \* number of ACK packets the server handed to its socket
    accepted,        \* sequence numbers the server accepted, in order
    \* EnhancedUdpClient (unnamed/part_000)
    udp_maxPackets,  \* EnhancedUdpClient::m_maxPackets
    m_packetsSent, m_sequenceNumber, m_cwnd, m_ssthresh, m_congestionAvoidance,
    m_interval,      \* seconds, as a fraction [num, den]
    m_sendEvent,     \* [pending, delay]: the SendPacket event in the scheduler
    udpState,        \* "created" | "running" | "stopped"
    totalLostPackets,
    uev,             \* what the last EnhancedUdpClient handler did
    udp_packetSize,  \* EnhancedUdpClient::m_packetSize, a uint32_t as [hi, lo]
    udpOut,          \* the packet the last SendPacket built: header and payload sizes
    \* EnhancedUdpServer (unnamed/part_000): the global statistics
    totalReceivedPackets, totalBytesReceived,
    totalDelay,      \* milliseconds
    urecv,           \* what the last EnhancedUdpServer::HandleRead read
    \* ReliableHeader on its own
    codec            \* a header, the buffer it is written to and read from

serverVars == <<m_expectedSequence, m_totalPacketsReceived, m_totalBytesReceived>>
clientVars == <<m_nextSequence, m_totalPacketsSent, m_retransmissions,
                m_totalBytesSent, m_timerEvent, m_waitingForAck,
                m_pendingAckSequence, m_maxPackets, clientState>>
schedVars == <<timers, sendEvents, uid>>
chanVars == <<net, drops, dups, inputs>>
obsVars == <<ev, sentSeqs, ackedSeqs, acksEmitted, accepted>>
udpServerVars == <<totalReceivedPackets, totalBytesReceived, totalDelay, urecv>>
rateVars == <<udp_maxPackets, m_packetsSent, m_sequenceNumber, m_cwnd, m_ssthresh,
              m_congestionAvoidance, m_interval, m_sendEvent, udpState,
              totalLostPackets, uev, udp_packetSize, udpOut, udpServerVars>>
reliableVars == <<serverVars, clientVars, schedVars, chanVars, obsVars>>
vars == <<reliableVars, rateVars, codec>>

\* ------------------------------------------------------------ ReliableHeader
\* Buffer::Iterator::WriteHtonU32: four bytes, most significant first.
WriteHtonU32(n) ==
    << (n \div 16777216) % 256, (n \div 65536) % 256, (n \div 256) % 256, n % 256 >>

\* Reads the four bytes least significant first.
ReadNtohU32_LittleEndian(b, i) ==
    b[i] + b[i + 1] * 256 + b[i + 2] * 65536 + b[i + 3] * 16777216

\* Buffer::Iterator::ReadNtohU32 of the four bytes starting at index i.
ReadNtohU32(b, i) ==
    b[i] * 16777216 + b[i + 1] * 65536 + b[i + 2] * 256 + b[i + 3]

\* A default-constructed header.
ReliableHeader == [seq |-> 0, ack |-> 0, isAck |-> FALSE]

GetSerializedSize == 4 + 4 + 1

Serialize(h) ==
    WriteHtonU32(h.seq) \o WriteHtonU32(h.ack) \o << IF h.isAck THEN 1 ELSE 0 >>

Deserialize(b) ==
    [seq |-> ReadNtohU32(b, 1), ack |-> ReadNtohU32(b, 5), isAck |-> (b[9] = 1)]

\* A packet on the wire: header bytes, number of payload bytes, addresses.
Packet(h, payload, src, dst) ==
    [hdr |-> Serialize(h), size |-> payload, from |-> src, to |-> dst]

\* Counts the payload without the header.
GetSize_PayloadOnly(p) == p.size

\* Packet::GetSize after AddHeader.
GetSize(p) == Len(p.hdr) + p.size

\* ------------------------------------------------------------------ helpers
\* The record a handler leaves in ev: its name, the header and origin of the
\* packet it read, the packets it handed to the socket, the timers it armed
\* (sequence number and delay), the timer ids it cancelled, the delays of the
\* SendPacket events it scheduled, and whether the socket took what it was handed.
Event(op, h, src, sent, armed, cancelled, scheduled, ok) ==
    [op |-> op, hdr |-> h, from |-> src, sent |-> sent, armed |-> armed,
     cancelled |-> cancelled, scheduled |-> scheduled, sendOk |-> ok]

Range(s) == { s[i] : i \in DOMAIN s }

\* A timer armed with Simulator::Schedule(m_timeout, &TimeoutHandler, this, seq).
Armed(seq) == [seq |-> seq, delay |-> "m_timeout"]

\* EventId::IsPending
IsPending(id) == \E t \in timers : t.id = id

\* Simulator::Cancel
Cancel(id) == { t \in timers : t.id # id }

\* Socket::SendTo of the packets `out` while `gone` leave the channel. The
\* socket may refuse a packet (ok = FALSE): nothing is enqueued then.
SendTo(gone, out, ok) ==
    /\ (ok \/ out = <<>> \/ drops < MaxDrops)
    /\ (out = <<>> => ok)
    /\ net' = (net \ gone) \cup (IF ok THEN Range(out) ELSE {})
    /\ drops' = IF ok THEN drops ELSE drops + 1

\* Socket::RecvFrom of packet p: the channel hands it over and, when keep, will
\* hand it over once more later (duplication).
RecvFrom(p, keep) ==
    /\ p \in net
    /\ keep => dups < MaxDups
    /\ dups' = IF keep THEN dups + 1 ELSE dups

Taken(p, keep) == IF keep THEN {} ELSE {p}

\* ------------------------------------------------------------ ReliableServer
\* Accepts every data packet, whatever its sequence number.
ServerAccepts_AnyData(h) == ~h.isAck

\* Accepts a data packet that is ahead of the expected sequence number too.
ServerAccepts_AtLeast(h) == ~h.isAck /\ h.seq >= m_expectedSequence

\* HandleRead: "if (!header.GetIsAck())" and "if (seq == m_expectedSequence)".
ServerAccepts(h) == ~h.isAck /\ h.seq = m_expectedSequence

\* HandleRead: m_totalBytesReceived += packet->GetSize() after RemoveHeader.
ServerBytesAfter(p) == m_totalBytesReceived + p.size

\* Acknowledges the sequence number expected next instead of the one received.
ServerAck_Next(seq, dst) ==
    Packet([seq |-> 0, ack |-> seq + 1, isAck |-> TRUE], 0, "server", dst)

\* HandleRead: the ACK built for an accepted sequence number.
ServerAck(seq, dst) ==
    Packet([ReliableHeader EXCEPT !.isAck = TRUE, !.ack = seq], 0, ServerAddr, dst)

\* Acknowledges every data packet, accepted or not.
ServerReplies_AckAllData(p) ==
    IF Deserialize(p.hdr).isAck
    THEN << >>
    ELSE << Packet([seq |-> 0, ack |-> Deserialize(p.hdr).seq, isAck |-> TRUE],
                   0, "server", p.from) >>

\* HandleRead: the packets handed to socket->SendTo for received packet p.
ServerReplies(p) ==
    LET h == Deserialize(p.hdr)
    IN  IF ServerAccepts(h) THEN << ServerAck(h.seq, p.from) >> ELSE << >>

\* HandleRead, one iteration of its RecvFrom loop, on packet p.
ServerProcess(p, ok) ==
    LET h == Deserialize(p.hdr)
    IN  /\ m_totalBytesReceived' = ServerBytesAfter(p)
        /\ IF ServerAccepts(h)
           THEN /\ m_totalPacketsReceived' = m_totalPacketsReceived + 1
                /\ m_expectedSequence' = m_expectedSequence + 1
           ELSE UNCHANGED <<m_totalPacketsReceived, m_expectedSequence>>
        /\ acksEmitted' = acksEmitted + Len(ServerReplies(p))
        /\ accepted' = IF ServerAccepts(h) THEN Append(accepted, h.seq) ELSE accepted
        /\ ev' = Event("ServerHandleRead", h, p.from, ServerReplies(p),
                       << >>, {}, << >>, ok)

ServerHandleRead ==
    \E p \in net, keep \in BOOLEAN, ok \in BOOLEAN :
        /\ p.to = ServerAddr
        /\ RecvFrom(p, keep)
        /\ ServerProcess(p, ok)
        /\ SendTo(Taken(p, keep), ServerReplies(p), ok)
        /\ UNCHANGED <<clientVars, schedVars, inputs, sentSeqs, ackedSeqs>>
    /\ UNCHANGED <<rateVars, codec>>

\* ------------------------------------------------------------ ReliableClient
m_packetSize == PacketSize

DataPacket(seq) ==
    Packet([ReliableHeader EXCEPT !.seq = seq, !.isAck = FALSE],
           m_packetSize, ClientAddr, ServerAddr)

ClientStartApplication ==
    /\ clientState = "created"
    /\ clientState' = "running"
    /\ m_maxPackets' = m_maxPackets
    /\ sendEvents' = sendEvents + 1
    /\ uid' = uid + 1
    /\ ev' = Event("ClientStartApplication", ReliableHeader, ClientAddr, << >>, << >>, {},
                   << "0.1s" >>, TRUE)
    /\ UNCHANGED <<serverVars, m_nextSequence, m_totalPacketsSent, m_retransmissions,
                   m_totalBytesSent, m_timerEvent, m_waitingForAck,
                   m_pendingAckSequence, timers, chanVars, sentSeqs, ackedSeqs,
                   acksEmitted, accepted>>
    /\ UNCHANGED <<rateVars, codec>>

\* StopApplication: "if (m_timerEvent.IsPending()) Simulator::Cancel(m_timerEvent)".
StopCancelTimerEvent == IF IsPending(m_timerEvent) THEN Cancel(m_timerEvent) ELSE timers

\* StopApplication: the pending timer is cancelled; the socket stays open and
\* scheduled SendPacket events stay in the scheduler.
ClientStopApplication ==
    /\ clientState = "running"
    /\ clientState' = "stopped"
    /\ m_maxPackets' = m_maxPackets
    /\ timers' = StopCancelTimerEvent
    /\ ev' = Event("ClientStopApplication", ReliableHeader, ClientAddr, << >>, << >>,
                   IF IsPending(m_timerEvent) THEN {m_timerEvent} ELSE {}, << >>, TRUE)
    /\ UNCHANGED <<serverVars, m_nextSequence, m_totalPacketsSent, m_retransmissions,
                   m_totalBytesSent, m_timerEvent, m_waitingForAck,
                   m_pendingAckSequence, sendEvents, uid, chanVars, sentSeqs,
                   ackedSeqs, acksEmitted, accepted>>
    /\ UNCHANGED <<rateVars, codec>>

\* Lets one more packet through than MaxPackets.
SendFinished_OffByOne == m_nextSequence > m_maxPackets

\* Stops one packet short of MaxPackets.
SendFinished_Early == m_nextSequence + 1 >= m_maxPackets

\* SendPacket: "if (m_nextSequence >= m_maxPackets) return".
SendFinished == m_nextSequence >= m_maxPackets

\* Records the sequence number after the increment as the pending one.
PendingAfterSend_Incremented == m_nextSequence + 1

\* SendPacket: "m_pendingAckSequence = m_nextSequence", before m_nextSequence++.
PendingAfterSend == m_nextSequence

\* SendPacket, run by a scheduled event.
ClientSendPacket ==
    /\ sendEvents > 0
    /\ sendEvents' = sendEvents - 1
    /\ m_maxPackets' = m_maxPackets
    /\ IF SendFinished
       THEN /\ ev' = Event("ClientSendPacket", ReliableHeader, ClientAddr, << >>, << >>, {}, << >>, TRUE)
            /\ UNCHANGED <<m_nextSequence, m_totalPacketsSent, m_retransmissions,
                           m_totalBytesSent, m_timerEvent, m_waitingForAck,
                           m_pendingAckSequence, clientState, timers, uid,
                           chanVars, sentSeqs>>
       ELSE \E ok \in BOOLEAN :
            LET packet == DataPacket(m_nextSequence)
            IN  /\ SendTo({}, << packet >>, ok)
                /\ m_totalPacketsSent' = m_totalPacketsSent + 1
                /\ m_totalBytesSent' = m_totalBytesSent + GetSize(packet)
                /\ m_waitingForAck' = TRUE
                /\ m_pendingAckSequence' = PendingAfterSend
                /\ m_timerEvent' = uid
                /\ timers' = timers \cup {[id |-> uid, seq |-> m_nextSequence]}
                /\ uid' = uid + 1
                /\ m_nextSequence' = m_nextSequence + 1
                /\ sentSeqs' = sentSeqs \cup {m_nextSequence}
                /\ ev' = Event("ClientSendPacket", ReliableHeader, ClientAddr, << packet >>,
                               << Armed(m_nextSequence) >>, {}, << >>, ok)
                /\ UNCHANGED <<m_retransmissions, clientState, dups, inputs>>
    /\ UNCHANGED <<serverVars, ackedSeqs, acksEmitted, accepted>>
    /\ UNCHANGED <<rateVars, codec>>

\* Accepts an ACK for the pending number without looking at m_waitingForAck.
AckMatches_IgnoresWaiting(h) == h.isAck /\ h.ack = m_pendingAckSequence

\* Leaves the timer in the scheduler.
CancelTimerEvent_Skip == timers

\* "if (m_timerEvent.IsPending()) Simulator::Cancel(m_timerEvent)": the pending
\* timer events that remain.
CancelTimerEvent == IF IsPending(m_timerEvent) THEN Cancel(m_timerEvent) ELSE timers

\* Accepts any ACK while waiting, whatever number it acknowledges.
AckMatches_AnyAck(h) == h.isAck /\ m_waitingForAck

\* HandleRead: "if (m_waitingForAck && ackSeq == m_pendingAckSequence)" inside
\* "if (header.GetIsAck())".
AckMatches(h) == h.isAck /\ m_waitingForAck /\ h.ack = m_pendingAckSequence

\* HandleRead, one iteration of its RecvFrom loop.
ClientHandleRead ==
    \E p \in net, keep \in BOOLEAN :
        LET h == Deserialize(p.hdr)
        IN  /\ p.to = ClientAddr
            /\ RecvFrom(p, keep)
            /\ SendTo(Taken(p, keep), << >>, TRUE)
            /\ IF AckMatches(h)
               THEN /\ timers' = CancelTimerEvent
                    /\ m_waitingForAck' = FALSE
                    /\ sendEvents' = sendEvents + 1
                    /\ uid' = uid + 1
                    /\ ackedSeqs' = ackedSeqs \cup {h.ack}
                    /\ ev' = Event("ClientHandleRead", h, p.from, << >>, << >>,
                                   IF IsPending(m_timerEvent) THEN {m_timerEvent} ELSE {},
                                   << "m_interval" >>, TRUE)
               ELSE /\ ev' = Event("ClientHandleRead", h, p.from, << >>, << >>, {}, << >>, TRUE)
                    /\ UNCHANGED <<timers, m_waitingForAck, sendEvents, uid, ackedSeqs>>
            /\ UNCHANGED <<serverVars, m_nextSequence, m_totalPacketsSent,
                           m_retransmissions, m_totalBytesSent, m_timerEvent,
                           m_pendingAckSequence, m_maxPackets, clientState, inputs,
                           sentSeqs,
                           acksEmitted, accepted>>
    /\ UNCHANGED <<rateVars, codec>>

\* Retransmits on any timer expiry while waiting, whatever its sequence number.
TimeoutMatches_IgnoresSeq(seq) == m_waitingForAck

\* Compares the timer's number with m_nextSequence, which is already one ahead.
TimeoutMatches_NextSequence(seq) == m_waitingForAck /\ seq = m_nextSequence

\* Gives up after the first retransmission.
TimeoutMatches_RetryOnce(seq) ==
    m_waitingForAck /\ seq = m_pendingAckSequence /\ m_retransmissions < 1

\* TimeoutHandler: "if (m_waitingForAck && seq == m_pendingAckSequence)".
TimeoutMatches(seq) == m_waitingForAck /\ seq = m_pendingAckSequence

\* Retransmits the sequence number to be sent next instead of the timed-out one.
RetransmitPacket_NextSequence(seq) ==
    Packet([seq |-> m_nextSequence, ack |-> 0, isAck |-> FALSE],
           m_packetSize, "client", "server")

\* TimeoutHandler: the packet built for the retransmission of seq.
RetransmitPacket(seq) == DataPacket(seq)

\* TimeoutHandler(seq); `fired` is the timer event whose expiry runs it.
TimeoutHandlerRun(seq, fired) ==
    /\ IF TimeoutMatches(seq)
       THEN \E ok \in BOOLEAN :
            LET packet == RetransmitPacket(seq)
            IN  /\ m_retransmissions < MaxRetx
                /\ m_retransmissions' = m_retransmissions + 1
                /\ SendTo({}, << packet >>, ok)
                /\ m_totalPacketsSent' = m_totalPacketsSent + 1
                /\ m_totalBytesSent' = m_totalBytesSent + GetSize(packet)
                /\ m_timerEvent' = uid
                /\ timers' = (timers \ fired) \cup {[id |-> uid, seq |-> seq]}
                /\ uid' = uid + 1
                /\ sentSeqs' = sentSeqs \cup {Deserialize(packet.hdr).seq}
                /\ ev' = Event("ClientTimeoutHandler", [ReliableHeader EXCEPT !.seq = seq],
                               ClientAddr, << packet >>, << Armed(seq) >>, {}, << >>, ok)
       ELSE /\ timers' = timers \ fired
            /\ ev' = Event("ClientTimeoutHandler", [ReliableHeader EXCEPT !.seq = seq],
                           ClientAddr, << >>, << >>, {}, << >>, TRUE)
            /\ UNCHANGED <<m_retransmissions, m_totalPacketsSent, m_totalBytesSent,
                           m_timerEvent, uid, net, drops, sentSeqs>>
    /\ UNCHANGED <<serverVars, m_nextSequence, m_waitingForAck,
                   m_pendingAckSequence, m_maxPackets, clientState, sendEvents,
                   dups, ackedSeqs, acksEmitted, accepted>>
    /\ UNCHANGED <<rateVars, codec>>

\* TimeoutHandler(seq), run by the expiry of timer event t.
ClientTimeoutHandler ==
    \E t \in timers :
        /\ TimeoutHandlerRun(t.seq, {t})
        /\ UNCHANGED inputs

\* ------------------------------------------------------------------ channel
\* The receive error model of the point-to-point devices drops a packet.
ChannelLose ==
    \E p \in net :
        /\ drops < MaxDrops
        /\ net' = net \ {p}
        /\ drops' = drops + 1
        /\ ev' = Event("ChannelLose", Deserialize(p.hdr), p.from, << >>, << >>, {}, << >>, TRUE)
        /\ UNCHANGED <<serverVars, clientVars, schedVars, dups, inputs, sentSeqs,
                       ackedSeqs, acksEmitted, accepted>>
    /\ UNCHANGED <<rateVars, codec>>

\* -------------------------------------------------------- EnhancedUdpClient
\* The rate-controlled client of unnamed/part_000. A Time is the fraction
\* num/den of a second; the window arithmetic is that of uint32_t, whose
\* wrap-around no run within MaxUdpPackets comes near.
Seconds(n, d) == [num |-> n, den |-> d]

\* operator< on two times.
TimeLess(a, b) == a.num * b.den < b.num * a.den

\* std::max(a, b): b when a < b, else a.
MaxTime(a, b) == IF TimeLess(a, b) THEN b ELSE a

\* std::min / std::max on uint32_t.
MinU32(a, b) == IF b < a THEN b ELSE a
MaxU32(a, b) == IF a < b THEN b ELSE a

\* A uint32_t as two 16-bit halves, so that its whole range can be written.
U32(hi, lo) == [hi |-> hi, lo |-> lo]

\* a - b on uint32_t: modulo 2^32.
SubU32(a, b) ==
    LET lo == a.lo - b.lo
        hi == a.hi - b.hi - (IF lo < 0 THEN 1 ELSE 0)
    IN  U32((hi + 65536) % 65536, (lo + 65536) % 65536)

\* CustomHeader::GetSize(): sizeof of a uint32_t, a double and a uint32_t.
CustomHeaderSize == 4 + 8 + 4

\* No packet built yet.
NoPacket == [built |-> FALSE, header |-> 0, payload |-> U32(0, 0)]

\* SendPacket: "payloadSize = totalPacketSize - CustomHeader::GetSize()".
PayloadSize(size) == SubU32(size, U32(0, CustomHeaderSize))

\* SendPacket, lines 320-326: the header buffer, and the payload added at the
\* end when "payloadSize > 0".
BuildPacket(size) ==
    [built |-> TRUE, header |-> CustomHeaderSize,
     payload |-> IF PayloadSize(size) # U32(0, 0) THEN PayloadSize(size) ELSE U32(0, 0)]

\* The globals of EnhancedUdpServer as main resets them.
EnhancedUdpServerInit ==
    /\ totalReceivedPackets = 0
    /\ totalBytesReceived = 0
    /\ totalDelay = 0
    /\ urecv = [op |-> "Init", size |-> 0, delay |-> 0]

\* EnhancedUdpClient's constructor, then SetPacketSize(size), SetMaxPackets(n)
\* and SetInterval(Seconds(0.05)) as main does.
EnhancedUdpClientInit(n, size) ==
    /\ udp_maxPackets = n
    /\ udp_packetSize = size
    /\ udpOut = NoPacket
    /\ m_packetsSent = 0
    /\ m_sequenceNumber = 0
    /\ m_cwnd = 4
    /\ m_ssthresh = 32
    /\ m_congestionAvoidance = FALSE
    /\ m_interval = Seconds(1, 20)
    /\ m_sendEvent = [pending |-> FALSE, delay |-> Seconds(0, 1)]
    /\ udpState = "created"
    /\ totalLostPackets = 0
    /\ uev = [op |-> "Init", sendOk |-> TRUE, control |-> FALSE, loss |-> FALSE,
              grown |-> [cwnd |-> 4, ssthresh |-> 32, ca |-> FALSE],
              scheduled |-> << >>]

\* What a handler leaves in uev: its name, whether socket->Send returned a
\* positive count, whether CongestionControl ran, whether its simulated-loss
\* branch ran, the window after its growth branch, and the delays of the
\* Schedule calls made.
UdpEvent(op, ok, control, loss, grown, scheduled) ==
    [op |-> op, sendOk |-> ok, control |-> control, loss |-> loss,
     grown |-> grown, scheduled |-> scheduled]

Window == [cwnd |-> m_cwnd, ssthresh |-> m_ssthresh, ca |-> m_congestionAvoidance]

\* Schedules nothing.
ScheduleTransmit_Never(interval) == [pending |-> FALSE, delay |-> interval]

\* ScheduleTransmit: Simulator::Schedule(m_interval, &SendPacket, this), with
\* the interval in force when it is called.
ScheduleTransmit(interval) == [pending |-> TRUE, delay |-> interval]

\* SendPacket: "if (m_packetsSent % 15 == 0)" after m_packetsSent++.
ControlDue(sent) == sent % 15 = 0

\* Slow start that does not clamp the window to ssthresh.
Growth_Unclamped(w) ==
    IF ~w.ca
    THEN [cwnd |-> w.cwnd + 2, ssthresh |-> w.ssthresh, ca |-> (w.cwnd + 2 >= w.ssthresh)]
    ELSE [cwnd |-> w.cwnd + 1, ssthresh |-> w.ssthresh, ca |-> TRUE]

\* CongestionControl, lines 354-364: the growth branch on window w.
Growth(w) ==
    IF ~w.ca
    THEN LET c == MinU32(w.cwnd + 2, w.ssthresh)
         IN  [cwnd |-> c, ssthresh |-> w.ssthresh, ca |-> (c >= w.ssthresh)]
    ELSE [cwnd |-> w.cwnd + 1, ssthresh |-> w.ssthresh, ca |-> TRUE]

\* CongestionControl: "if (m_packetsSent % 40 == 0 && m_packetsSent > 0)".
LossEventFires(sent) == sent % 40 = 0 /\ sent > 0

\* Leaves the window as it is on a simulated loss.
LossAdjust_KeepWindow(w) ==
    [cwnd |-> w.cwnd, ssthresh |-> MaxU32(w.cwnd \div 2, 4), ca |-> FALSE]

\* Resets the window to 1 on a simulated loss.
LossAdjust_ResetToOne(w) ==
    [cwnd |-> 1, ssthresh |-> MaxU32(w.cwnd \div 2, 4), ca |-> FALSE]

\* CongestionControl, lines 368-370, on the window w left by the growth branch.
LossAdjust(w) ==
    [cwnd |-> 4, ssthresh |-> MaxU32(w.cwnd \div 2, 4), ca |-> FALSE]

\* Keeps the configured interval.
IntervalFor_Fixed(cwnd) == Seconds(1, 20)

\* Derives the interval from twice the window.
IntervalFor_Halved(cwnd) == MaxTime(Seconds(1, 2 * cwnd), Seconds(1, 1000))

\* CongestionControl, lines 376-378: the interval for window size cwnd.
IntervalFor(cwnd) == MaxTime(Seconds(1, cwnd), Seconds(1, 1000))

\* CongestionControl as a whole, entered with m_packetsSent = sent.
CongestionControl(sent, w) ==
    LET g == Growth(w)
        a == IF LossEventFires(sent) THEN LossAdjust(g) ELSE g
    IN  [window |-> a, grown |-> g, loss |-> LossEventFires(sent),
         lost |-> IF LossEventFires(sent) THEN 2 ELSE 0,
         interval |-> IntervalFor(a.cwnd)]

UdpStartApplication ==
    /\ udpState = "created"
    /\ udpState' = "running"
    /\ m_sendEvent' = ScheduleTransmit(m_interval)
    /\ uev' = UdpEvent("UdpStartApplication", TRUE, FALSE, FALSE, Window, << m_interval >>)
    /\ UNCHANGED <<udp_maxPackets, m_packetsSent, m_sequenceNumber, m_cwnd, m_ssthresh,
                   m_congestionAvoidance, m_interval, totalLostPackets>>
    /\ UNCHANGED <<udp_packetSize, udpOut, udpServerVars>>
    /\ UNCHANGED <<reliableVars, codec>>

\* StopApplication: the socket is closed and the pending send event cancelled.
UdpStopApplication ==
    /\ udpState = "running"
    /\ udpState' = "stopped"
    /\ m_sendEvent' = [m_sendEvent EXCEPT !.pending = FALSE]
    /\ uev' = UdpEvent("UdpStopApplication", TRUE, FALSE, FALSE, Window, << >>)
    /\ UNCHANGED <<udp_maxPackets, m_packetsSent, m_sequenceNumber, m_cwnd, m_ssthresh,
                   m_congestionAvoidance, m_interval, totalLostPackets>>
    /\ UNCHANGED <<udp_packetSize, udpOut, udpServerVars>>
    /\ UNCHANGED <<reliableVars, codec>>

\* SendPacket, run by the scheduled event; ok: socket->Send returned > 0.
UdpSendPacketRun(ok) ==
    /\ m_sendEvent.pending
    /\ IF m_packetsSent >= udp_maxPackets
       THEN /\ m_sendEvent' = [m_sendEvent EXCEPT !.pending = FALSE]
            /\ uev' = UdpEvent("UdpSendPacket", TRUE, FALSE, FALSE, Window, << >>)
            /\ ok
            /\ UNCHANGED <<m_packetsSent, m_sequenceNumber, m_cwnd, m_ssthresh,
                           m_congestionAvoidance, m_interval, totalLostPackets,
                           udpOut>>
       ELSE /\ m_sequenceNumber' = m_sequenceNumber + 1
            /\ udpOut' = BuildPacket(udp_packetSize)
            /\ IF ok
               THEN LET sent == m_packetsSent + 1
                        cc == CongestionControl(sent, Window)
                        w == IF ControlDue(sent) THEN cc.window ELSE Window
                        interval == IF ControlDue(sent) THEN cc.interval ELSE m_interval
                    IN  /\ m_packetsSent' = sent
                        /\ m_cwnd' = w.cwnd
                        /\ m_ssthresh' = w.ssthresh
                        /\ m_congestionAvoidance' = w.ca
                        /\ m_interval' = interval
                        /\ totalLostPackets' =
                             totalLostPackets + (IF ControlDue(sent) THEN cc.lost ELSE 0)
                        /\ m_sendEvent' =
                             IF sent < udp_maxPackets
                             THEN ScheduleTransmit(interval)
                             ELSE [m_sendEvent EXCEPT !.pending = FALSE]
                        /\ uev' = UdpEvent("UdpSendPacket", TRUE, ControlDue(sent),
                                           ControlDue(sent) /\ cc.loss,
                                           IF ControlDue(sent) THEN cc.grown ELSE Window,
                                           IF sent < udp_maxPackets
                                           THEN << interval >> ELSE << >>)
               ELSE /\ totalLostPackets' = totalLostPackets + 1
                    /\ m_sendEvent' = [m_sendEvent EXCEPT !.pending = FALSE]
                    /\ uev' = UdpEvent("UdpSendPacket", FALSE, FALSE, FALSE, Window, << >>)
                    /\ UNCHANGED <<m_packetsSent, m_cwnd, m_ssthresh,
                                   m_congestionAvoidance, m_interval>>
    /\ UNCHANGED <<udp_maxPackets, udpState, udp_packetSize, udpServerVars>>
    /\ UNCHANGED <<reliableVars, codec>>

UdpSendPacket == \E ok \in BOOLEAN : UdpSendPacketRun(ok)

\* -------------------------------------------------------- EnhancedUdpServer
\* Takes a packet of exactly the header size for too small.
HasCustomHeader_Strict(size) == size > CustomHeaderSize

\* HandleRead: "if (packetSize >= CustomHeader::GetSize())".
HasCustomHeader(size) == size >= CustomHeaderSize

\* HandleRead, one iteration of its RecvFrom loop, on a packet of `size` bytes
\* whose header gives a delay of `delay` milliseconds.
UdpServerProcess(size, delay) ==
    /\ IF HasCustomHeader(size)
       THEN /\ totalReceivedPackets' = totalReceivedPackets + 1
            /\ totalBytesReceived' = totalBytesReceived + size
            /\ totalDelay' = totalDelay + delay
       ELSE UNCHANGED <<totalReceivedPackets, totalBytesReceived, totalDelay>>
    /\ urecv' = [op |-> "UdpServerHandleRead", size |-> size, delay |-> delay]

\* Sizes of the datagrams that reach the server's port, and the delays their
\* sendTime fields give (any host may send, with any sendTime).
UdpInputSizes == {0, 1, 15, 16, 17, 1024}
UdpInputDelays == {-1, 0, 2}

\* HandleRead on a datagram some host sent to the server's port.
UdpServerHandleRead ==
    /\ inputs < MaxInputs
    /\ inputs' = inputs + 1
    /\ \E size \in UdpInputSizes, delay \in UdpInputDelays :
          UdpServerProcess(size, delay)
    /\ UNCHANGED <<serverVars, clientVars, schedVars, net, drops, dups, obsVars>>
    /\ UNCHANGED <<udp_maxPackets, m_packetsSent, m_sequenceNumber, m_cwnd, m_ssthresh,
                   m_congestionAvoidance, m_interval, m_sendEvent, udpState,
                   totalLostPackets, uev, udp_packetSize, udpOut, codec>>

\* ------------------------------------------ ReliableHeader through a buffer
\* No header in hand.
CodecIdle ==
    [step |-> "idle", header |-> ReliableHeader, payload |-> << >>,
     buffer |-> << >>, read |-> ReliableHeader, consumed |-> 0]

\* Header values written and read: every byte of a field is 0, 1 or 255, the
\* most significant one 0, 1 or 127 (TLC's integers end at 2^31 - 1).
CodecBytes == {0, 1, 255}
CodecTopBytes == {0, 1, 127}
CodecU32 ==
    { a * 16777216 + b * 65536 + c * 256 + d :
        a \in CodecTopBytes, b \in CodecBytes, c \in CodecBytes, d \in CodecBytes }
CodecHeaders == [seq : CodecU32, ack : CodecU32, isAck : BOOLEAN]
CodecPayloads == { << >>, << 7 >>, << 0, 255 >> }

\* Packet::AddHeader: the header is serialized in front of the payload.
CodecAddHeader ==
    /\ codec.step = "idle"
    /\ codec' = [codec EXCEPT !.step = "written",
                              !.buffer = Serialize(codec.header) \o codec.payload]
    /\ UNCHANGED <<reliableVars, rateVars>>

\* Packet::RemoveHeader: Deserialize reads from the start of the buffer and
\* the number of bytes it returns is removed.
CodecRemoveHeader ==
    /\ codec.step = "written"
    /\ codec' = [codec EXCEPT !.step = "read",
                              !.read = Deserialize(codec.buffer),
                              !.consumed = GetSerializedSize,
                              !.buffer = SubSeq(codec.buffer, GetSerializedSize + 1,
                                                Len(codec.buffer))]
    /\ UNCHANGED <<reliableVars, rateVars>>

\* ------------------------------------------------------------ specification
\* The objects after construction and attribute setting, MaxPackets = n.
ReliableInit(n) ==
    /\ m_expectedSequence = 0
    /\ m_totalPacketsReceived = 0
    /\ m_totalBytesReceived = 0
    /\ m_nextSequence = 0
    /\ m_totalPacketsSent = 0
    /\ m_retransmissions = 0
    /\ m_totalBytesSent = 0
    /\ m_timerEvent = 0
    /\ m_waitingForAck = FALSE
    /\ m_pendingAckSequence = 0
    /\ m_maxPackets = n
    /\ clientState = "created"
    /\ timers = {}
    /\ sendEvents = 0
    /\ uid = 1
    /\ net = {}
    /\ drops = 0
    /\ dups = 0
    /\ inputs = 0
    /\ ev = Event("Init", ReliableHeader, ClientAddr, << >>, << >>, {}, << >>, TRUE)
    /\ sentSeqs = {}
    /\ ackedSeqs = {}
    /\ acksEmitted = 0
    /\ accepted = << >>

Init ==
    /\ ReliableInit(MaxPackets)
    /\ EnhancedUdpClientInit(MaxUdpPackets, U32(0, 1024))
    /\ EnhancedUdpServerInit
    /\ codec = CodecIdle

Next ==
    \/ ClientStartApplication
    \/ ClientSendPacket
    \/ ClientHandleRead
    \/ ClientTimeoutHandler
    \/ ClientStopApplication
    \/ ServerHandleRead
    \/ ChannelLose

Spec == Init /\ [][Next]_vars

\* ------------------------------------------------- fair run (liveness claims)
\* The run while the client is not stopped, with the timeout longer than the
\* round trip: a timer expires only when no packet is in flight any more.
ClientTimeoutAfterRoundTrip ==
    /\ net = {}
    /\ ClientTimeoutHandler

FairNext ==
    \/ ClientStartApplication
    \/ ClientSendPacket
    \/ ClientHandleRead
    \/ ClientTimeoutAfterRoundTrip
    \/ ServerHandleRead
    \/ ChannelLose

\* Every scheduled event runs and every packet left in flight arrives; the
\* channel loses at most MaxDrops packets, and MaxRetx exceeds MaxDrops.
FairSpec ==
    /\ Init
    /\ [][FairNext]_vars
    /\ WF_vars(ClientStartApplication)
    /\ WF_vars(ClientSendPacket)
    /\ WF_vars(ClientHandleRead)
    /\ WF_vars(ClientTimeoutAfterRoundTrip)
    /\ WF_vars(ServerHandleRead)

\* ------------------------------------------------------------ open receiver
\* The server alone, its UDP port open to any well-formed packet from any host.
InputPackets ==
    { Packet([seq |-> s, ack |-> a, isAck |-> f], sz, src, ServerAddr) :
        s \in 0..MaxInSeq, a \in 0..MaxInSeq, f \in BOOLEAN,
        sz \in {0, PacketSize}, src \in {ClientAddr, OtherAddr} }

\* Some host sends a packet to the server's port.
ServerInput ==
    /\ inputs < MaxInputs
    /\ \A q \in net : q.to # ServerAddr
    /\ \E p \in InputPackets :
        /\ net' = net \cup {p}
        /\ ev' = Event("ServerInput", Deserialize(p.hdr), p.from, << >>, << >>, {}, << >>, TRUE)
    /\ inputs' = inputs + 1
    /\ UNCHANGED <<serverVars, clientVars, schedVars, drops, dups, sentSeqs,
                   ackedSeqs, acksEmitted, accepted>>
    /\ UNCHANGED <<rateVars, codec>>

ServerNext ==
    \/ ServerInput
    \/ ServerHandleRead

ServerSpec == Init /\ [][ServerNext]_vars

\* -------------------------------------------------------------- open sender
\* The client alone, its socket open to any well-formed packet from any host,
\* and its TimeoutHandler also entered by timer events that no longer match.
ClientInputPackets ==
    { Packet([seq |-> 0, ack |-> a, isAck |-> TRUE], 0, src, ClientAddr) :
        a \in 0..MaxInSeq, src \in {ServerAddr, OtherAddr} }
    \cup
    { Packet([seq |-> n, ack |-> 0, isAck |-> FALSE], PacketSize, src, ClientAddr) :
        n \in 0..MaxInSeq, src \in {ServerAddr, OtherAddr} }

\* Some host sends a packet to the client's socket.
ClientInput ==
    /\ inputs < MaxInputs
    /\ clientState # "created"
    /\ \A q \in net : q.to # ClientAddr
    /\ \E p \in ClientInputPackets :
        /\ net' = net \cup {p}
        /\ ev' = Event("ClientInput", Deserialize(p.hdr), p.from, << >>, << >>, {}, << >>, TRUE)
    /\ inputs' = inputs + 1
    /\ UNCHANGED <<serverVars, clientVars, schedVars, drops, dups, sentSeqs,
                   ackedSeqs, acksEmitted, accepted>>
    /\ UNCHANGED <<rateVars, codec>>

\* TimeoutHandler(seq) entered for a sequence number that is not, or no
\* longer, the one awaited.
ClientStaleTimeout ==
    /\ inputs < MaxInputs
    /\ clientState # "created"
    /\ \E seq \in 0..MaxInSeq :
        /\ ~(m_waitingForAck /\ seq = m_pendingAckSequence)
        /\ TimeoutHandlerRun(seq, {})
    /\ inputs' = inputs + 1

ClientNext ==
    \/ ClientStartApplication
    \/ ClientSendPacket
    \/ ClientHandleRead
    \/ ClientTimeoutHandler
    \/ ClientStopApplication
    \/ ClientInput
    \/ ClientStaleTimeout

ClientSpec == Init /\ [][ClientNext]_vars

\* ------------------------------------------------------------ scenario runs
\* The runs of main() with the error rate at 0 and the timeout longer than the
\* round trip, for every MaxPackets up to MaxRunPackets, and the same runs
\* with the receive error model dropping data segment 3 once.
ScenarioInit ==
    /\ \E n \in 0..MaxRunPackets : ReliableInit(n)
    /\ EnhancedUdpClientInit(MaxUdpPackets, U32(0, 1024))
    /\ EnhancedUdpServerInit
    /\ codec = CodecIdle

\* The error model drops the data segment numbered DroppedSequence, once.
DropSegmentThreeOnce ==
    \E p \in net :
        /\ drops = 0
        /\ p.to = ServerAddr
        /\ ~Deserialize(p.hdr).isAck /\ Deserialize(p.hdr).seq = 3
        /\ net' = net \ {p}
        /\ drops' = 1
        /\ ev' = Event("ChannelLose", Deserialize(p.hdr), p.from, << >>, << >>, {}, << >>, TRUE)
        /\ UNCHANGED <<serverVars, clientVars, schedVars, dups, inputs, sentSeqs,
                       ackedSeqs, acksEmitted, accepted>>
    /\ UNCHANGED <<rateVars, codec>>

\* A handler step in which the channel loses nothing, duplicates nothing and
\* the socket refuses nothing.
Lossless == drops' = drops /\ dups' = dups

ScenarioNext ==
    \/ ClientStartApplication /\ Lossless
    \/ ClientSendPacket /\ Lossless
    \/ ClientHandleRead /\ Lossless
    \/ ClientTimeoutAfterRoundTrip /\ Lossless
    \/ ServerHandleRead /\ Lossless
    \/ DropSegmentThreeOnce

\* Every scheduled event runs and every packet left in flight arrives.
ScenarioSpec ==
    /\ ScenarioInit
    /\ [][ScenarioNext]_vars
    /\ WF_vars(ClientStartApplication /\ Lossless)
    /\ WF_vars(ClientSendPacket /\ Lossless)
    /\ WF_vars(ClientHandleRead /\ Lossless)
    /\ WF_vars(ClientTimeoutAfterRoundTrip /\ Lossless)
    /\ WF_vars(ServerHandleRead /\ Lossless)

\* The run is over: the client has started and the scheduler holds no
\* SendPacket event and no timer, and no packet is in flight.
RunOver ==
    /\ clientState = "running"
    /\ sendEvents = 0 /\ timers = {} /\ net = {}

\* ------------------------------------------------------------ lossy channel
\* The channel loses a packet, as often as it likes.
ChannelLoseAny ==
    \E p \in net :
        /\ net' = net \ {p}
        /\ ev' = Event("ChannelLose", Deserialize(p.hdr), p.from, << >>, << >>, {}, << >>, TRUE)
        /\ UNCHANGED <<serverVars, clientVars, schedVars, drops, dups, inputs, sentSeqs,
                       ackedSeqs, acksEmitted, accepted>>
        /\ UNCHANGED <<rateVars, codec>>

LossyNext ==
    \/ ClientStartApplication
    \/ ClientSendPacket
    \/ ClientHandleRead
    \/ ClientTimeoutAfterRoundTrip
    \/ ServerHandleRead
    \/ ChannelLoseAny

\* The fair run over a channel that may lose every packet: every scheduled
\* event runs, and a packet that is not lost arrives.
LossySpec ==
    /\ Init
    /\ [][LossyNext]_vars
    /\ WF_vars(ClientStartApplication)
    /\ WF_vars(ClientSendPacket)
    /\ WF_vars(ClientHandleRead)
    /\ WF_vars(ClientTimeoutAfterRoundTrip)
    /\ WF_vars(ServerHandleRead)

\* ------------------------------------------------------------ header codec
CodecInit ==
    /\ ReliableInit(MaxPackets)
    /\ EnhancedUdpClientInit(MaxUdpPackets, U32(0, 1024))
    /\ EnhancedUdpServerInit
    /\ \E h \in CodecHeaders, pl \in CodecPayloads :
          codec = [CodecIdle EXCEPT !.header = h, !.payload = pl]

CodecNext ==
    \/ CodecAddHeader
    \/ CodecRemoveHeader

CodecSpec == CodecInit /\ [][CodecNext]_vars

\* ------------------------------------------------------- truncated packets
\* Datagrams shorter than the header that reach the server's port.
TruncatedBytes == { << >>, << 0, 0, 0, 0 >>, << 0, 0, 0, 0, 0, 0, 0, 0 >> }

\* What the iterator finds behind the end of a short buffer: memory the
\* packet does not own, here filled with one byte value.
PastTheEnd(b) ==
    { [i \in 1..(GetSerializedSize - Len(b)) |-> v] : v \in {0, 1} }

\* HandleRead on a datagram shorter than the header. RemoveHeader calls
\* Deserialize without looking at the size: the iterator's assertion ends the
\* process in a debug build (abort), and in an optimized build the reads run
\* past the end of the data and HandleRead goes on with what they return.
ServerReadTruncated ==
    /\ inputs < MaxInputs
    /\ inputs' = inputs + 1
    /\ \E b \in TruncatedBytes, src \in {ClientAddr, OtherAddr}, abort \in BOOLEAN :
          IF abort
          THEN /\ ev' = Event("ServerAbort", ReliableHeader, src, << >>, << >>, {}, << >>, TRUE)
               /\ UNCHANGED <<serverVars, net, drops, dups, acksEmitted, accepted>>
          ELSE \E pad \in PastTheEnd(b), ok \in BOOLEAN :
               LET p == [hdr |-> b \o pad, size |-> 0, from |-> src, to |-> ServerAddr]
               IN  /\ ServerProcess(p, ok)
                   /\ SendTo({}, ServerReplies(p), ok)
                   /\ UNCHANGED dups
    /\ UNCHANGED <<clientVars, schedVars, sentSeqs, ackedSeqs>>
    /\ UNCHANGED <<rateVars, codec>>

\* The process has not been ended by an assertion.
Alive == ev.op # "ServerAbort"

TruncatedNext ==
    \/ Alive /\ ServerInput
    \/ Alive /\ ServerHandleRead
    \/ Alive /\ ServerReadTruncated

\* The open receiver, also reached by datagrams shorter than the header.
TruncatedSpec == Init /\ [][TruncatedNext]_vars

\* ------------------------------------------------------ rate-variant server
\* The EnhancedUdpServer alone, its port open to datagrams of any size.
UdpServerNext == UdpServerHandleRead

UdpServerSpec == Init /\ [][UdpServerNext]_vars

\* ------------------------------------------------------ rate-controlled run
\* The EnhancedUdpClient alone, for every MaxPackets up to MaxUdpPackets; its
\* socket may refuse any send and the application may be stopped at any time.
RateInit ==
    /\ ReliableInit(MaxPackets)
    /\ \E n \in 0..MaxUdpPackets : EnhancedUdpClientInit(n, U32(0, 1024))
    /\ EnhancedUdpServerInit
    /\ codec = CodecIdle

RateNext ==
    \/ UdpStartApplication
    \/ UdpSendPacket
    \/ UdpStopApplication

RateSpec == RateInit /\ [][RateNext]_vars

\* SendPacket with a socket that accepts the packet.
UdpSendPacketOk == UdpSendPacketRun(TRUE)

RateFairNext ==
    \/ UdpStartApplication
    \/ UdpSendPacketOk

\* Every send succeeds, the client is not stopped, and the simulator runs
\* every scheduled event.
RateFairSpec ==
    /\ RateInit
    /\ [][RateFairNext]_vars
    /\ WF_vars(UdpStartApplication)
    /\ WF_vars(UdpSendPacketOk)

\* ------------------------------------------------------------ packet sizes
\* PacketSize values given to the rate-controlled client.
UdpPacketSizes ==
    { U32(0, 0), U32(0, 1), U32(0, 15), U32(0, 16), U32(0, 17), U32(0, 1024),
      U32(1, 0), U32(65535, 65535) }

SizeInit ==
    /\ ReliableInit(MaxPackets)
    /\ \E n \in 0..MaxRunPackets, size \in UdpPacketSizes :
          EnhancedUdpClientInit(n, size)
    /\ EnhancedUdpServerInit
    /\ codec = CodecIdle

\* The rate-controlled client for every packet size of UdpPacketSizes.
SizeSpec == SizeInit /\ [][RateNext]_vars

\* ------------------------------------------------------------------- claims
\* A step in which the server's HandleRead read a data packet.
ServerReadData == ev'.op = "ServerHandleRead" /\ ~ev'.hdr.isAck

\* C1: at most one sequence number is unacknowledged, and a data segment with
\* sequence number n+1 has been transmitted only if the sender has accepted an
\* ACK for n, whatever the channel loses, duplicates or reorders.
C1_AtMostOneInFlight ==
    /\ Cardinality(sentSeqs \ ackedSeqs) <= 1
    /\ \A n \in sentSeqs : n > 0 => (n - 1) \in ackedSeqs

\* The third segment is awaiting its ACK after a loss, a duplication and a
\* retransmission.
C1_Witness ==
    /\ m_waitingForAck /\ m_pendingAckSequence = 2
    /\ dups > 0 /\ drops > 0 /\ m_retransmissions > 0

\* C2: every sequence number the sender has transmitted is eventually
\* acknowledged to it, when the channel loses only finitely many packets and
\* every timer and every packet in flight is eventually served.
C2_EventualDelivery ==
    \A n \in 0..(MaxPackets - 1) : (n \in sentSeqs) ~> (n \in ackedSeqs)

\* C3: when the receiver has accepted n and no ACK for n is on its way to the
\* sender any more, the sender still eventually accepts an ACK for n.
C3_LostAckRecovery ==
    \A n \in 0..(MaxPackets - 1) :
        ( /\ m_waitingForAck /\ m_pendingAckSequence = n
          /\ m_expectedSequence = n + 1
          /\ \A p \in net : p.to # ClientAddr )
        ~> (n \in ackedSeqs)

\* The state a lost ACK leaves behind: the receiver is past n, the sender still
\* awaits n and no ACK for n is in flight.
LostAck(n) ==
    /\ m_waitingForAck /\ m_pendingAckSequence = n
    /\ m_expectedSequence = n + 1
    /\ \A p \in net : p.to = ClientAddr => Deserialize(p.hdr).ack # n

\* No step of any handler or of the channel leaves that state: the stuttering
\* that ends the counterexamples of C2 and C3 is not an effect of MaxRetx.
LostAckIsPermanent ==
    [][ \A n \in 0..(MaxPackets - 1) : LostAck(n) => LostAck(n)' ]_vars

\* C4: the server accepts data segments in the order 0, 1, 2, ..., each
\* sequence number once, and m_totalPacketsReceived equals m_expectedSequence.
C4_InOrderAcceptance ==
    /\ m_totalPacketsReceived = m_expectedSequence
    /\ Len(accepted) = m_expectedSequence
    /\ \A i \in DOMAIN accepted : accepted[i] = i - 1

\* The server has just discarded a duplicate of a segment it accepted earlier.
C4_Witness ==
    /\ ev.op = "ServerHandleRead" /\ ~ev.hdr.isAck
    /\ ev.hdr.seq < m_expectedSequence
    /\ Len(accepted) >= 2

\* C5: m_expectedSequence never decreases, grows by exactly 1 when a data
\* segment carrying it is read, and is unchanged by a data segment carrying
\* any other sequence number.
C5_ReceiverMonotonic ==
    [][ /\ m_expectedSequence' >= m_expectedSequence
        /\ (ServerReadData /\ ev'.hdr.seq = m_expectedSequence
              => m_expectedSequence' = m_expectedSequence + 1)
        /\ (ServerReadData /\ ev'.hdr.seq # m_expectedSequence
              => m_expectedSequence' = m_expectedSequence) ]_vars

\* The server has just read a data segment that is ahead of the expected one.
C5_Witness ==
    /\ ev.op = "ServerHandleRead" /\ ~ev.hdr.isAck
    /\ ev.hdr.seq > m_expectedSequence
    /\ m_expectedSequence > 0

\* C6: on a data segment with sequenceNumber = m_expectedSequence = s the
\* server adds 1 to m_totalPacketsReceived, sets m_expectedSequence to s + 1
\* and hands exactly one packet to its socket: an ACK with ackNumber = s and
\* no payload, addressed to the address the segment came from.
C6_AcceptStep ==
    [][ ServerReadData /\ ev'.hdr.seq = m_expectedSequence =>
          /\ m_totalPacketsReceived' = m_totalPacketsReceived + 1
          /\ m_expectedSequence' = ev'.hdr.seq + 1
          /\ acksEmitted' = acksEmitted + 1
          /\ Len(ev'.sent) = 1
          /\ Deserialize(ev'.sent[1].hdr).isAck
          /\ Deserialize(ev'.sent[1].hdr).ack = ev'.hdr.seq
          /\ ev'.sent[1].to = ev'.from
          /\ ev'.sent[1].size = 0
          /\ (ev'.sendOk => ev'.sent[1] \in net') ]_vars

\* The server has just acknowledged segment 1 to a host other than the client.
C6_Witness ==
    /\ ev.op = "ServerHandleRead" /\ Len(ev.sent) = 1
    /\ ev.hdr.seq = 1 /\ ev.from = OtherAddr /\ ev.sendOk

\* C7: a data segment whose sequence number differs from m_expectedSequence
\* makes the server emit nothing, and the number of ACKs the server has
\* emitted always equals m_expectedSequence.
C7_NoAckForUnexpected ==
    /\ [](acksEmitted = m_expectedSequence)
    /\ [][ ServerReadData /\ ev'.hdr.seq # m_expectedSequence =>
             /\ ev'.sent = << >>
             /\ acksEmitted' = acksEmitted
             /\ net' \subseteq net ]_vars

\* The server has just read an unexpected data segment after emitting two ACKs.
C7_Witness ==
    /\ ev.op = "ServerHandleRead" /\ ~ev.hdr.isAck
    /\ ev.hdr.seq # m_expectedSequence - 1 /\ ev.sent = << >>
    /\ acksEmitted = 2

\* C8: a data segment whose sequence number differs from m_expectedSequence
\* leaves m_expectedSequence, m_totalPacketsReceived and m_totalBytesReceived
\* unchanged.
C8_DroppedLeavesSession ==
    [][ ServerReadData /\ ev'.hdr.seq # m_expectedSequence =>
          /\ m_expectedSequence' = m_expectedSequence
          /\ m_totalPacketsReceived' = m_totalPacketsReceived
          /\ m_totalBytesReceived' = m_totalBytesReceived ]_vars

\* C9: a segment with isAck set, with or without payload bytes, changes none
\* of the server's fields and makes the server send nothing.
C9_ServerIgnoresAck ==
    [][ ev'.op = "ServerHandleRead" /\ ev'.hdr.isAck =>
          /\ m_expectedSequence' = m_expectedSequence
          /\ m_totalPacketsReceived' = m_totalPacketsReceived
          /\ m_totalBytesReceived' = m_totalBytesReceived
          /\ ev'.sent = << >>
          /\ net' \subseteq net ]_vars

\* C10: when the client awaits the ACK for p and reads an ACK with
\* ackNumber = p, it cancels the pending timer so that no timer remains,
\* stops awaiting, and schedules exactly one SendPacket after m_interval; no
\* TimeoutHandler runs for an acknowledged sequence number afterwards.
C10_MatchingAckStep ==
    /\ [][ ( /\ ev'.op = "ClientHandleRead" /\ ev'.hdr.isAck
             /\ m_waitingForAck /\ ev'.hdr.ack = m_pendingAckSequence )
           => /\ ~m_waitingForAck'
              /\ ev'.cancelled = { t.id : t \in timers }
              /\ timers' = {}
              /\ ev'.scheduled = << "m_interval" >>
              /\ sendEvents' = sendEvents + 1
              /\ ev'.hdr.ack \in ackedSeqs' ]_vars
    /\ [][ ev'.op = "ClientTimeoutHandler" => ev'.hdr.seq \notin ackedSeqs ]_vars

\* The client has just accepted the ACK of a retransmitted segment and
\* cancelled the timer that was pending for it.
C10_Witness ==
    /\ ev.op = "ClientHandleRead" /\ ev.scheduled # << >>
    /\ ev.cancelled # {} /\ m_retransmissions > 0

\* C11: an ACK whose ackNumber is not the pending one, an ACK that arrives
\* while nothing is pending, and a segment that is no ACK each leave every
\* field of the client unchanged, cancel no timer, schedule no SendPacket and
\* send nothing.
C11_StaleAckIgnored ==
    [][ ( /\ ev'.op = "ClientHandleRead"
          /\ ~(ev'.hdr.isAck /\ m_waitingForAck /\ ev'.hdr.ack = m_pendingAckSequence) )
        => /\ UNCHANGED <<clientVars, schedVars>>
           /\ net' \subseteq net
           /\ ev'.cancelled = {} /\ ev'.scheduled = << >> /\ ev'.sent = << >> ]_vars

\* The client, awaiting the ACK for 1 with its timer pending, has just read an
\* ACK for another number.
C11_Witness ==
    /\ ev.op = "ClientHandleRead" /\ ev.hdr.isAck
    /\ m_waitingForAck /\ m_pendingAckSequence = 1
    /\ ev.hdr.ack # m_pendingAckSequence /\ timers # {}

\* A second case of C11: the client has just read a data segment while waiting.
C11_DataAtClient ==
    /\ ev.op = "ClientHandleRead" /\ ~ev.hdr.isAck /\ m_waitingForAck

\* C13: TimeoutHandler entered with a sequence number that is not the pending
\* one, or while the client awaits no ACK, sends nothing, arms no timer and
\* leaves every counter, m_nextSequence and the pending state unchanged.
C13_StaleTimeoutNoOp ==
    [][ ( /\ ev'.op = "ClientTimeoutHandler"
          /\ ~(m_waitingForAck /\ ev'.hdr.seq = m_pendingAckSequence) )
        => /\ UNCHANGED <<clientVars, sendEvents, uid, net>>
           /\ timers' \subseteq timers
           /\ ev'.sent = << >> /\ ev'.armed = << >> ]_vars

\* TimeoutHandler has just been entered for a number older than the pending
\* one, while the client was waiting with its timer pending.
C13_Witness ==
    /\ ev.op = "ClientTimeoutHandler" /\ m_waitingForAck
    /\ ev.hdr.seq < m_pendingAckSequence /\ timers # {}

\* C12: when TimeoutHandler runs for the pending sequence number p while the
\* client is waiting, it adds 1 to m_retransmissions, hands one data packet
\* with sequence number p and the configured payload to the socket, leaves
\* m_nextSequence alone, arms one timer with delay m_timeout keyed to p, and
\* the client still awaits the ACK for p.
C12_TimeoutRetransmits ==
    [][ ( /\ ev'.op = "ClientTimeoutHandler"
          /\ m_waitingForAck /\ ev'.hdr.seq = m_pendingAckSequence )
        => /\ m_retransmissions' = m_retransmissions + 1
           /\ m_totalPacketsSent' = m_totalPacketsSent + 1
           /\ Len(ev'.sent) = 1
           /\ ~Deserialize(ev'.sent[1].hdr).isAck
           /\ Deserialize(ev'.sent[1].hdr).seq = m_pendingAckSequence
           /\ ev'.sent[1].size = m_packetSize
           /\ ev'.sent[1].to = ServerAddr
           /\ m_nextSequence' = m_nextSequence
           /\ ev'.armed = << [seq |-> m_pendingAckSequence, delay |-> "m_timeout"] >>
           /\ timers' = { [id |-> m_timerEvent', seq |-> m_pendingAckSequence] }
           /\ m_waitingForAck' /\ m_pendingAckSequence' = m_pendingAckSequence ]_vars

\* Segment 1 has just been retransmitted for the second time.
C12_Witness ==
    /\ ev.op = "ClientTimeoutHandler" /\ ev.sent # << >>
    /\ ev.hdr.seq = 1 /\ m_retransmissions = 2

C15_FreshSequenceNumbers ==
    [][ /\ \A n \in sentSeqs' : n < m_maxPackets
        /\ sentSeqs' = 0..(Cardinality(sentSeqs') - 1)
        /\ ( ev'.op = "ClientSendPacket" /\ ev'.sent # << >>
             => LET n == Deserialize(ev'.sent[1].hdr).seq
                IN  /\ Len(ev'.sent) = 1
                    /\ n = Cardinality(sentSeqs) /\ n \notin sentSeqs
                    /\ m_waitingForAck' /\ m_pendingAckSequence' = n
                    /\ ev'.armed = << [seq |-> n, delay |-> "m_timeout"] >>
                    /\ [id |-> m_timerEvent', seq |-> n] \in timers' ) ]_vars

\* SendPacket has just sent segment 2 after an earlier retransmission.
C15_Witness ==
    /\ ev.op = "ClientSendPacket" /\ ev.sent # << >>
    /\ m_pendingAckSequence = 2 /\ m_retransmissions > 0

\* C16: before the client is stopped at most one timer event is pending, it
\* is the one m_timerEvent names and is keyed to the pending sequence number,
\* and a timer is pending exactly when the client awaits an ACK.
C16_SingleTimer ==
    clientState # "stopped" =>
        /\ Cardinality(timers) <= 1
        /\ \A t \in timers : t.id = m_timerEvent /\ t.seq = m_pendingAckSequence
        /\ (timers # {}) <=> m_waitingForAck

\* The running client awaits the ACK for 1 after a retransmission, its timer
\* pending.
C16_Witness ==
    /\ clientState = "running" /\ m_waitingForAck /\ timers # {}
    /\ m_pendingAckSequence = 1 /\ m_retransmissions > 0

\* C17: once the client is stopped no timer is pending and no TimeoutHandler
\* retransmits.
C17_StopCancelsTimer ==
    [][ clientState' = "stopped" =>
          /\ timers' = {}
          /\ ~(ev'.op = "ClientTimeoutHandler" /\ ev'.sent # << >>) ]_vars

\* C18: a run in which nothing is lost ends, and it ends with m_maxPackets
\* data packets sent, the ACKs for 0..m_maxPackets-1 accepted by the client
\* (as many as the server emitted), no retransmission, the server expecting
\* m_maxPackets, and the client waiting for nothing.
C18_LossFreeRun ==
    /\ <>[]RunOver
    /\ [](RunOver /\ drops = 0 =>
            /\ m_totalPacketsSent = m_maxPackets
            /\ m_nextSequence = m_maxPackets
            /\ ackedSeqs = 0..(m_maxPackets - 1)
            /\ acksEmitted = m_maxPackets
            /\ m_retransmissions = 0
            /\ m_expectedSequence = m_maxPackets
            /\ ~m_waitingForAck)

\* A loss-free run of MaxRunPackets packets is over.
C18_Witness ==
    /\ RunOver /\ drops = 0
    /\ m_maxPackets = MaxRunPackets /\ m_totalPacketsSent = MaxRunPackets

C20_SingleDrop ==
    /\ (drops = 1) ~> (m_retransmissions = 1 /\ 3 \in Range(accepted))
    /\ (drops = 1) ~> (m_expectedSequence >= 4)
    /\ [](RunOver /\ drops = 1 => m_retransmissions = 1)
    /\ [][ (ev'.op = "ClientTimeoutHandler" /\ ev'.sent # << >>)
           => /\ drops = 1 /\ m_retransmissions = 0
              /\ Deserialize(ev'.sent[1].hdr).seq = 3 ]_vars

\* The run in which segment 3 was dropped is over, all packets delivered.
C20_Witness ==
    /\ RunOver /\ drops = 1 /\ m_retransmissions = 1
    /\ m_expectedSequence = m_maxPackets /\ m_maxPackets > 4

\* A step in which SendPacket of the rate-controlled client sent successfully.
UdpSent == uev'.op = "UdpSendPacket" /\ m_packetsSent' = m_packetsSent + 1

C23_WindowFloor == m_cwnd >= 4 /\ m_ssthresh >= 4

\* The window has just been reset by the second simulated loss.
C23_Witness ==
    /\ uev.loss /\ m_packetsSent = 240 /\ m_cwnd = 4 /\ m_ssthresh < 10

\* C24: the growth branch runs on exactly the successful sends whose count is
\* a multiple of 15; in slow start it makes cwnd min(cwnd + 2, ssthresh) and
\* enters congestion avoidance iff that value is >= ssthresh; in congestion
\* avoidance it makes cwnd cwnd + 1 and keeps ssthresh and the phase; a step
\* that does not run it, or a send without a simulated loss, leaves the window
\* as the growth branch left it.
C24_GrowthStep ==
    [][ /\ uev'.control <=> (UdpSent /\ m_packetsSent' % 15 = 0)
        /\ uev'.control =>
             /\ uev'.grown.ssthresh = m_ssthresh
             /\ IF ~m_congestionAvoidance
                THEN /\ uev'.grown.cwnd =
                          (IF m_cwnd + 2 <= m_ssthresh THEN m_cwnd + 2 ELSE m_ssthresh)
                     /\ uev'.grown.ca <=> (uev'.grown.cwnd >= m_ssthresh)
                ELSE /\ uev'.grown.cwnd = m_cwnd + 1
                     /\ uev'.grown.ca
        /\ (uev'.control /\ ~uev'.loss) =>
             /\ m_cwnd' = uev'.grown.cwnd
             /\ m_ssthresh' = uev'.grown.ssthresh
             /\ m_congestionAvoidance' = uev'.grown.ca
        /\ ~uev'.control =>
             UNCHANGED <<m_cwnd, m_ssthresh, m_congestionAvoidance, m_interval>> ]_vars

\* Slow start has just been clamped to an odd ssthresh and left.
C24_Witness ==
    /\ uev.control /\ ~uev.loss /\ m_congestionAvoidance
    /\ m_cwnd = m_ssthresh /\ m_cwnd % 2 = 1

\* C25: a simulated-loss event sets ssthresh to max(c div 2, 4), c being cwnd
\* when the triggering send began, cwnd to 4, the phase to slow start, and
\* adds 2 to totalLostPackets.
C25_LossAdjustment ==
    [][ uev'.loss
        => /\ m_ssthresh' = (IF m_cwnd \div 2 >= 4 THEN m_cwnd \div 2 ELSE 4)
           /\ m_cwnd' = 4
           /\ ~m_congestionAvoidance'
           /\ totalLostPackets' = totalLostPackets + 2 ]_vars

\* C26: after CongestionControl has run, m_interval is max(1/cwnd s, 1 ms)
\* for the cwnd it left, and the ScheduleTransmit that follows in the same
\* SendPacket schedules the next send with that interval.
C26_IntervalDerivation ==
    [][ uev'.control
        => /\ m_interval' = (IF m_cwnd' <= 1000 THEN [num |-> 1, den |-> m_cwnd']
                                                ELSE [num |-> 1, den |-> 1000])
           /\ (m_packetsSent' < udp_maxPackets) =>
                /\ uev'.scheduled = << m_interval' >>
                /\ m_sendEvent' = [pending |-> TRUE, delay |-> m_interval'] ]_vars

\* CongestionControl has just changed the interval and the next send is
\* scheduled with it.
C26_Witness ==
    /\ uev.control /\ m_sendEvent.pending
    /\ m_sendEvent.delay = [num |-> 1, den |-> m_cwnd] /\ m_cwnd > 4

\* C27: when every send succeeds and the client is not stopped, it comes to
\* have sent udp_maxPackets packets with nothing scheduled, for good; and
\* m_packetsSent never exceeds udp_maxPackets.
C27_RateRunCompletes ==
    /\ <>[](m_packetsSent = udp_maxPackets /\ ~m_sendEvent.pending)
    /\ [](m_packetsSent <= udp_maxPackets)

\* The run of MaxUdpPackets packets is complete.
C27_Witness ==
    /\ udp_maxPackets = MaxUdpPackets /\ m_packetsSent = MaxUdpPackets
    /\ ~m_sendEvent.pending /\ udpState = "running"

\* C29: a failed send adds 1 to totalLostPackets, leaves m_packetsSent, the
\* window and the interval unchanged, and a later send is still scheduled.
C29_SendFailureKeepsGoing ==
    [][ (uev'.op = "UdpSendPacket" /\ ~uev'.sendOk)
        => /\ totalLostPackets' = totalLostPackets + 1
           /\ UNCHANGED <<m_packetsSent, m_cwnd, m_ssthresh, m_congestionAvoidance,
                          m_interval>>
           /\ m_sendEvent'.pending ]_vars

\* C21: there is no retry ceiling: for every k below the explored number of
\* retransmissions, a client waiting with k retransmissions made comes to
\* make another one unless an ACK ends the wait; while it waits a timer is
\* pending and m_nextSequence stays at the pending number plus one; and only
\* an accepted ACK ends the wait or lets the client leave the running state.
C21_UnboundedRetransmission ==
    /\ \A k \in 0..(MaxRetx - 1) :
          (m_waitingForAck /\ m_retransmissions = k)
              ~> (m_retransmissions > k \/ ~m_waitingForAck)
    /\ [](m_waitingForAck =>
            /\ timers # {}
            /\ m_nextSequence = m_pendingAckSequence + 1
            /\ clientState = "running")
    /\ [][ (m_waitingForAck /\ ~m_waitingForAck') =>
              (ev'.op = "ClientHandleRead" /\ ev'.hdr.isAck
                 /\ ev'.hdr.ack = m_pendingAckSequence) ]_vars

\* Every transmission of segment 0 has been lost by the channel and the
\* client has retransmitted it as often as the model follows it.
C21_Witness ==
    /\ m_waitingForAck /\ m_pendingAckSequence = 0
    /\ m_retransmissions = MaxRetx /\ m_totalPacketsSent = MaxRetx + 1
    /\ accepted = << >> /\ net = {} /\ drops = 0 /\ timers # {}

\* C28: a data transmission the socket refuses is not counted as sent.
C28_SendFailureNotCounted ==
    [][ ( /\ ev'.op \in {"ClientSendPacket", "ClientTimeoutHandler"}
          /\ ev'.sent # << >> /\ ~ev'.sendOk )
        => /\ m_totalPacketsSent' = m_totalPacketsSent
           /\ m_totalBytesSent' = m_totalBytesSent ]_vars

\* C30: the header read back from the bytes Serialize wrote equals the header
\* written, the header occupies 9 bytes of byte values, Deserialize consumes
\* 9 bytes, and what is left of the buffer is the payload.
C30_CodecRoundTrip ==
    /\ codec.step = "written" =>
         /\ Len(codec.buffer) = 9 + Len(codec.payload)
         /\ \A i \in 1..9 : codec.buffer[i] \in 0..255
         /\ SubSeq(codec.buffer, 10, Len(codec.buffer)) = codec.payload
    /\ codec.step = "read" =>
         /\ codec.read.seq = codec.header.seq
         /\ codec.read.ack = codec.header.ack
         /\ codec.read.isAck = codec.header.isAck
         /\ codec.consumed = 9
         /\ codec.buffer = codec.payload

\* An ACK header with sequence number 2^31 - 1 and a payload behind it has
\* been written and read back.
C30_Witness ==
    /\ codec.step = "read" /\ codec.header.seq = 2147483647
    /\ codec.header.ack = 16777471 /\ codec.header.isAck
    /\ codec.payload = << 0, 255 >>

\* C32: once the client is stopped, no SendPacket or TimeoutHandler hands a
\* packet to the socket or arms a timer.
C32_NoTransmissionAfterStop ==
    [][ ( /\ clientState = "stopped"
          /\ ev'.op \in {"ClientSendPacket", "ClientTimeoutHandler"} )
        => (ev'.sent = << >> /\ ev'.armed = << >>) ]_vars

\* C33: the server's expected sequence number is m_nextSequence - 1 or
\* m_nextSequence; while the client awaits the ACK for p it is p or p + 1,
\* and while the client awaits nothing it is m_nextSequence.
C33_SenderReceiverCoupling ==
    /\ m_nextSequence - 1 <= m_expectedSequence
    /\ m_expectedSequence <= m_nextSequence
    /\ m_waitingForAck =>
         m_expectedSequence \in {m_pendingAckSequence, m_pendingAckSequence + 1}
    /\ ~m_waitingForAck => m_expectedSequence = m_nextSequence

\* The server has accepted segment 1 and the client, after a loss and a
\* retransmission, still awaits its ACK.
C33_Witness ==
    /\ m_waitingForAck /\ m_pendingAckSequence = 1 /\ m_expectedSequence = 2
    /\ m_retransmissions > 0 /\ drops > 0

\* C34: m_totalPacketsSent = m_nextSequence + m_retransmissions,
\* m_nextSequence <= m_maxPackets, and while the client awaits an ACK the
\* pending sequence number is m_nextSequence - 1.
C34_SenderCounters ==
    /\ m_totalPacketsSent = m_nextSequence + m_retransmissions
    /\ m_nextSequence <= m_maxPackets
    /\ m_waitingForAck => m_pendingAckSequence = m_nextSequence - 1

\* All MaxPackets segments have been sent, with MaxRetx retransmissions.
C34_Witness ==
    /\ m_nextSequence = m_maxPackets /\ m_retransmissions = MaxRetx
    /\ m_totalPacketsSent = MaxPackets + MaxRetx /\ ev.op = "ClientTimeoutHandler"

\* C35 as stated: in every reachable state, the initial one included,
\* m_interval is max(1/cwnd s, 1 ms) and at least 1 ms.
C35_IntervalTracksWindow ==
    /\ m_interval = (IF m_cwnd <= 1000 THEN [num |-> 1, den |-> m_cwnd]
                                        ELSE [num |-> 1, den |-> 1000])
    /\ m_interval.num * 1000 >= m_interval.den

\* C35 amended: once CongestionControl has run (m_packetsSent >= 15)
\* m_interval is max(1/cwnd s, 1 ms); before that it is the configured 0.05 s
\* with cwnd = 4; it is at least 1 ms throughout.
C35_IntervalAfterControl ==
    /\ m_packetsSent >= 15 =>
         m_interval = (IF m_cwnd <= 1000 THEN [num |-> 1, den |-> m_cwnd]
                                          ELSE [num |-> 1, den |-> 1000])
    /\ m_packetsSent < 15 =>
         (m_interval = [num |-> 1, den |-> 20] /\ m_cwnd = 4)
    /\ m_interval.num * 1000 >= m_interval.den

\* The window has grown to 18 and the interval has followed it.
C35_Witness ==
    /\ m_packetsSent >= 15 /\ m_cwnd = 18 /\ m_interval = [num |-> 1, den |-> 18]
    /\ m_sendEvent.pending

\* C36: in slow start cwnd <= ssthresh, in congestion avoidance
\* cwnd >= ssthresh, and only a simulated-loss event takes the phase back to
\* slow start.
C36_PhaseWindowConsistency ==
    /\ [](IF m_congestionAvoidance THEN m_cwnd >= m_ssthresh
                                   ELSE m_cwnd <= m_ssthresh)
    /\ [][ (m_congestionAvoidance /\ ~m_congestionAvoidance') => uev'.loss ]_vars

\* A simulated loss has just taken the client from congestion avoidance back
\* to slow start.
C36_Witness ==
    /\ uev.loss /\ uev.grown.ca /\ uev.grown.cwnd > uev.grown.ssthresh
    /\ ~m_congestionAvoidance /\ m_cwnd < m_ssthresh

\* A step in which the server's HandleRead was given a datagram shorter than
\* the header.
TruncatedRead ==
    inputs' = inputs + 1 /\ ev'.op \in {"ServerHandleRead", "ServerAbort"}

\* C31: a datagram shorter than 9 bytes is discarded: the process goes on,
\* the server's fields are unchanged and nothing is sent.
C31_TruncationSafety ==
    [][ TruncatedRead
        => /\ ev'.op # "ServerAbort"
           /\ UNCHANGED <<serverVars, net, accepted, acksEmitted>>
           /\ ev'.sent = << >> ]_vars

\* C37: the packet SendPacket builds is udp_packetSize bytes in all, and its
\* payload size is udp_packetSize - 16 without wrap-around.
C37_PacketSizeExact ==
    udpOut.built =>
        LET lo == udpOut.header + udpOut.payload.lo
            hi == udpOut.payload.hi + (lo \div 65536)
        IN  /\ hi = udp_packetSize.hi /\ lo % 65536 = udp_packetSize.lo
            /\ hi < 65536
            /\ \/ udpOut.payload.hi < udp_packetSize.hi
               \/ /\ udpOut.payload.hi = udp_packetSize.hi
                  /\ udpOut.payload.lo <= udp_packetSize.lo

\* C38: a datagram shorter than 16 bytes leaves totalReceivedPackets,
\* totalBytesReceived and totalDelay unchanged; any other adds 1 to
\* totalReceivedPackets and its size to totalBytesReceived; neither counter
\* ever decreases.
C38_ShortPacketsDiscarded ==
    [][ /\ urecv'.op = "UdpServerHandleRead" /\ inputs' = inputs + 1 =>
             IF urecv'.size < 16
             THEN UNCHANGED <<totalReceivedPackets, totalBytesReceived, totalDelay>>
             ELSE /\ totalReceivedPackets' = totalReceivedPackets + 1
                  /\ totalBytesReceived' = totalBytesReceived + urecv'.size
        /\ totalReceivedPackets' >= totalReceivedPackets
        /\ totalBytesReceived' >= totalBytesReceived ]_vars

\* A 15-byte datagram has just been dropped after a 16-byte one was counted.
C38_Witness ==
    /\ urecv.op = "UdpServerHandleRead" /\ urecv.size = 15
    /\ totalReceivedPackets = 1 /\ totalBytesReceived = 16

====
